---- MODULE Spec2Model ----
(***************************************************************************)
(* Model of the cleanup-script generator (src/main.go): run() compares two *)
(* manifest files, filters the orphans by the -ignore list, prints a       *)
(* summary and writes a kubectl deletion script.                           *)
(*                                                                         *)
(* Go strings are TLA+ strings; a character is a string of length one.     *)
(* Go maps are functions whose domain is the set of keys.                  *)
(***************************************************************************)
EXTENDS Integers, Sequences, FiniteSets, TLC

VARIABLES pc, f, reads, from, to, ignored, orphaned, out, files, err,
          manifestsArg, decoder, resultsSlice

vars == <<pc, f, reads, from, to, ignored, orphaned, out, files, err,
          manifestsArg, decoder, resultsSlice>>

(***************************************************************************)
(* Strings: the byte order of the characters the inputs use, ToLower,      *)
(* Contains, Split and the comparison operator of Go strings.              *)
(***************************************************************************)

\* the ASCII characters ',' (44) .. 'Z' (90), in code order
AsciiLow == ",-./0123456789:;<=>?@ABCDEFGHIJKLMNOPQRSTUVWXYZ"

\* the ASCII characters 'a' (97) .. 'z' (122), in code order
AsciiHigh == "abcdefghijklmnopqrstuvwxyz"

UpperLetters == "ABCDEFGHIJKLMNOPQRSTUVWXYZ"

Char(s, i) == SubSeq(s, i, i)

\* where c stands in table
IndexIn(table, c) == CHOOSE i \in 1..Len(table) : Char(table, i) = c

UpperSet == {Char(UpperLetters, i) : i \in 1..Len(UpperLetters)}

\* the byte value of each character
CodeOf ==
    [c \in {Char(AsciiLow, i) : i \in 1..Len(AsciiLow)}
            \cup {Char(AsciiHigh, i) : i \in 1..Len(AsciiHigh)} |->
        IF \E i \in 1..Len(AsciiLow) : Char(AsciiLow, i) = c
        THEN 43 + IndexIn(AsciiLow, c)
        ELSE 96 + IndexIn(AsciiHigh, c)]

Code(c) == CodeOf[c]

\* Go's s < t on strings: lexicographic on bytes, a proper prefix is smaller
RECURSIVE StrLess(_, _)
StrLess(s, t) ==
    IF Len(t) = 0 THEN FALSE
    ELSE IF Len(s) = 0 THEN TRUE
    ELSE IF Char(s, 1) = Char(t, 1) THEN StrLess(Tail(s), Tail(t))
    ELSE Code(Char(s, 1)) < Code(Char(t, 1))

\* the lower-case letter of each upper-case letter
LowerOf == [c \in UpperSet |-> Char(AsciiHigh, IndexIn(UpperLetters, c))]

LowerChar(c) == IF c \in UpperSet THEN LowerOf[c] ELSE c

\* strings.ToLower
RECURSIVE ToLower(_)
ToLower(s) ==
    IF Len(s) = 0 THEN "" ELSE LowerChar(Char(s, 1)) \o ToLower(Tail(s))

\* strings.Contains(s, c) for a one-character c
Contains(s, c) == \E i \in 1..Len(s) : Char(s, i) = c

\* strings.Split(s, sep) for a one-character sep: always at least one field
RECURSIVE Split(_, _)
Split(s, sep) ==
    IF ~Contains(s, sep) THEN <<s>>
    ELSE LET i == CHOOSE j \in 1..Len(s) :
                     /\ Char(s, j) = sep
                     /\ \A k \in 1..(j - 1) : Char(s, k) # sep
         IN  <<SubSeq(s, 1, i - 1)>> \o Split(SubSeq(s, i + 1, Len(s)), sep)

(***************************************************************************)
(* The pure functions of main.go.                                          *)
(***************************************************************************)

Nil == "<nil>"

\* kindNameVersion
KNV(a, k, n) == [apiVersion |-> a, kind |-> k, name |-> n]

\* kindName
KN(k, n) == [kind |-> k, name |-> n]

\* a simple kind that looks for the group separator '.' instead of '/'
simpleKindByDot(m) ==
    IF Contains(m.apiVersion, ".")
    THEN ToLower(m.kind) \o "s." \o ToLower(Split(m.apiVersion, "/")[1])
    ELSE ToLower(m.kind)

simpleKind(m) ==
    IF Contains(m.apiVersion, "/")
    THEN ToLower(m.kind) \o "s." \o ToLower(Split(m.apiVersion, "/")[1])
    ELSE ToLower(m.kind)

\* a loop that returns after looking at the first entry only
shouldIgnoreFirstOnly(found, ign) ==
    /\ Len(ign) > 0
    /\ ign[1].kind = simpleKind(found) /\ ign[1].name = found.name

\* a comparison against the raw kind
shouldIgnoreRawKind(found, ign) ==
    \E i \in 1..Len(ign) :
        ign[i].kind = found.kind /\ ign[i].name = found.name

shouldIgnore(found, ign) ==
    \E i \in 1..Len(ign) :
        ign[i].kind = simpleKind(found) /\ ign[i].name = found.name

RECURSIVE removeIgnored(_, _)
removeIgnored(knms, ign) ==
    IF Len(knms) = 0 THEN <<>>
    ELSE IF Len(ign) > 0 /\ shouldIgnore(Head(knms), ign)
         THEN removeIgnored(Tail(knms), ign)
         ELSE <<Head(knms)>> \o removeIgnored(Tail(knms), ign)

\* a less function that compares the kinds only
lessKindOnly(l, r) == StrLess(l.kind, r.kind)

\* a less function that folds the case of the kinds before comparing them
lessFoldedKind(l, r) ==
    IF l.kind = r.kind THEN StrLess(l.name, r.name)
    ELSE StrLess(ToLower(l.kind), ToLower(r.kind))

\* the less function compare hands to sort.Slice
less(l, r) ==
    IF l.kind = r.kind THEN StrLess(l.name, r.name) ELSE StrLess(l.kind, r.kind)

\* every order in which a range loop may visit the keys of a map
RangeOrders(m) ==
    LET n == Cardinality(DOMAIN m)
    IN  {o \in [1..n -> DOMAIN m] : \A i, j \in 1..n : i # j => o[i] # o[j]}

\* sort.Slice is not stable: any rearrangement of s that less puts in order
SortSlice(s) ==
    LET n == Len(s)
    IN  {p \in {[i \in 1..n |-> s[q[i]]] : q \in Permutations(1..n)} :
            \A i, j \in 1..n : i < j => ~less(p[j], p[i])}

\* a presence test that compares the whole triple instead of looking the key up
RECURSIVE AppendedByValue(_, _, _)
AppendedByValue(left, right, o) ==
    IF Len(o) = 0 THEN <<>>
    ELSE IF Head(o) \notin DOMAIN right \/ right[Head(o)] # left[Head(o)]
         THEN <<left[Head(o)]>> \o AppendedByValue(left, right, Tail(o))
         ELSE AppendedByValue(left, right, Tail(o))

\* the slice compare has appended to when the range loop visits the keys in order o
RECURSIVE Appended(_, _, _)
Appended(left, right, o) ==
    IF Len(o) = 0 THEN <<>>
    ELSE IF Head(o) \notin DOMAIN right
         THEN <<left[Head(o)]>> \o Appended(left, right, Tail(o))
         ELSE Appended(left, right, Tail(o))

\* the results compare(left, right) can return
compare(left, right) ==
    UNION {SortSlice(Appended(left, right, o)) : o \in RangeOrders(left)}

\* parseIgnoredManifests: the entries parsed so far and the error, if any
RECURSIVE ParseEntries(_)
ParseEntries(entries) ==
    IF Len(entries) = 0 THEN [list |-> <<>>, err |-> Nil]
    ELSE LET manifest == Split(Head(entries), ":")
         IN  IF Len(manifest) # 2
             THEN [list |-> <<>>,
                   err |-> "invalid ignored manifest format: " \o Head(entries)]
             ELSE LET rest == ParseEntries(Tail(entries))
                  IN  IF rest.err # Nil THEN rest
                      ELSE [list |-> <<KN(manifest[1], manifest[2])>> \o rest.list,
                            err |-> Nil]

parseIgnoredManifests(s) == ParseEntries(Split(s, ","))

(***************************************************************************)
(* The loader.  A manifest file is the sequence of documents its YAML      *)
(* stream holds; a document is what decoder.Decode makes of it: a mapping  *)
(* with its three identity fields, a null document, a document that fails  *)
(* with a yaml.TypeError, or one that fails with another decoder error.    *)
(* A mapping may lack one of the identity fields, or hold it as something  *)
(* other than a string: the tags "noapiversion", "nokind" and "noname".    *)
(***************************************************************************)

Doc(a, k, n) == [t |-> "doc", apiVersion |-> a, kind |-> k, name |-> n]

NullDoc == [t |-> "null", apiVersion |-> "", kind |-> "", name |-> ""]

TypeErrDoc == [t |-> "typeerr", apiVersion |-> "", kind |-> "", name |-> ""]

SyntaxErrDoc == [t |-> "syntaxerr", apiVersion |-> "", kind |-> "", name |-> ""]

NoAPIVersionDoc == [t |-> "noapiversion", apiVersion |-> "", kind |-> "Pod", name |-> "Abc"]

NoKindDoc == [t |-> "nokind", apiVersion |-> "v1", kind |-> "", name |-> "Abc"]

NoNameDoc == [t |-> "noname", apiVersion |-> "v1", kind |-> "Pod", name |-> ""]

TypeErrText == "yaml: unmarshal errors:\n  line 1: cannot unmarshal !!str into map[string]interface {}"

SyntaxErrText == "yaml: did not find expected key"

\* unmarshal: the documents kept, the warnings printed and the error, if any
RECURSIVE unmarshal(_)
unmarshal(stream) ==
    IF Len(stream) = 0 THEN [results |-> <<>>, warns |-> <<>>, err |-> Nil]
    ELSE LET d == Head(stream)
             rest == unmarshal(Tail(stream))
         IN  CASE d.t = "null" -> rest
               [] d.t = "typeerr" ->
                    [rest EXCEPT !.warns =
                        <<"WARN - type error: " \o TypeErrText \o "\n">> \o @]
               [] d.t = "syntaxerr" ->
                    [results |-> <<>>, warns |-> <<>>,
                     err |-> "unable to decode manifest to yaml: " \o SyntaxErrText]
               [] OTHER ->
                    IF rest.err # Nil THEN rest
                    ELSE [rest EXCEPT !.results = <<d>> \o @]

PanicText == "interface conversion: interface {} is nil, not string"

\* the unchecked type assertions of getAPIVersion, getKind and getName panic
Panics(m) == m.t \in {"noapiversion", "nokind", "noname"}

getAPIVersion(m) == m.apiVersion

getKind(m) == m.kind

getName(m) == m.name

\* the map parseManifest builds from the decoded documents, in stream order
RECURSIVE Index(_, _)
Index(results, manifestsSlice) ==
    IF Len(manifestsSlice) = 0 THEN results
    ELSE LET m == Head(manifestsSlice)
             key == getKind(m) \o getName(m)
             put == [k \in DOMAIN results \cup {key} |->
                        IF k = key
                        THEN KNV(getAPIVersion(m), getKind(m), getName(m))
                        ELSE results[k]]
         IN  Index(put, Tail(manifestsSlice))

EmptyMap == [k \in {} |-> k]

\* a script that keeps the case of the names
RECURSIVE DeletionCmdsRawName(_)
DeletionCmdsRawName(list) ==
    IF Len(list) = 0 THEN ""
    ELSE "kubectl delete -n kyma-system " \o simpleKind(Head(list)) \o " "
            \o Head(list).name \o "\n" \o DeletionCmdsRawName(Tail(list))

\* the script generateDeletionScript writes for the list from
RECURSIVE DeletionCmds(_)
DeletionCmds(list) ==
    IF Len(list) = 0 THEN ""
    ELSE "kubectl delete -n kyma-system " \o simpleKind(Head(list)) \o " "
            \o ToLower(Head(list).name) \o "\n" \o DeletionCmds(Tail(list))

ScriptText(list) == "#!/usr/bin/env bash\n\n" \o DeletionCmds(list)

\* the lines printSummary prints
SummaryLines(manifests) ==
    IF Len(manifests) = 0 THEN <<>>
    ELSE <<"Resources to be deleted after upgrade:\n">> \o
         [i \in 1..Len(manifests) |->
            "{apiVersion:" \o manifests[i].apiVersion \o " kind:" \o manifests[i].kind
                \o " name:" \o manifests[i].name \o "}\n"]

(***************************************************************************)
(* The file system the runs read.                                          *)
(***************************************************************************)

ServiceMonitorDoc == Doc("monitoring.coreos.com/v1", "ServiceMonitor", "tracing-jaeger-operator")

ConfigMapDoc == Doc("v1", "ConfigMap", "tracing-grafana-dashboard")

PodSecurityPolicyDoc == Doc("policy/v1beta1", "PodSecurityPolicy", "002-kyma-privileged")

DeploymentDoc == Doc("apps/v1", "Deployment", "rafter-asyncapi-svc")

P1 == Doc("v1", "Pod", "Abc")

P2 == Doc("g/v1", "P", "odAbc")

P3 == Doc("Apps/v1", "Pod", "Abc")

P4 == Doc("v1", "a.b", "c")

P5 == Doc("v1", "Pod", "AbC")

File(stream) == [readable |-> TRUE, docs |-> stream]

Disk ==
    [path \in {"kyma-1.yaml", "kyma-2.yaml", "pods.yaml", "pods-apps.yaml", "dup.yaml",
               "warn.yaml", "broken.yaml", "empty.yaml", "locked.yaml", "collide.yaml",
               "noapiversion.yaml", "nokind.yaml", "noname.yaml"} |->
        CASE path = "kyma-1.yaml" ->
                File(<<DeploymentDoc, ServiceMonitorDoc, PodSecurityPolicyDoc, ConfigMapDoc>>)
          [] path = "kyma-2.yaml" -> File(<<Doc("apps/v1beta2", "Deployment", "rafter-asyncapi-svc")>>)
          [] path = "pods.yaml" -> File(<<P1, P4, P5>>)
          [] path = "pods-apps.yaml" -> File(<<P3>>)
          [] path = "dup.yaml" -> File(<<P1, P2>>)
          [] path = "warn.yaml" -> File(<<NullDoc, P4, TypeErrDoc, P1, NullDoc>>)
          [] path = "broken.yaml" -> File(<<P1, TypeErrDoc, SyntaxErrDoc, P4>>)
          [] path = "empty.yaml" -> File(<<>>)
          [] path = "collide.yaml" -> File(<<P2>>)
          [] path = "noapiversion.yaml" -> File(<<NoAPIVersionDoc>>)
          [] path = "nokind.yaml" -> File(<<P4, NoKindDoc>>)
          [] path = "noname.yaml" -> File(<<TypeErrDoc, NoNameDoc, P1>>)
          [] OTHER -> [readable |-> FALSE, docs |-> <<>>]]

\* os.ReadFile
ReadFile(path) ==
    IF path \in DOMAIN Disk /\ Disk[path].readable
    THEN [data |-> Disk[path].docs, err |-> Nil]
    ELSE [data |-> <<>>, err |-> "open " \o path \o ": permission denied"]

\* parseManifest: the map, the warnings printed, the error, if any, and the panic
\* that ends the process instead of a return, if any
parseManifest(filePath) ==
    LET file == ReadFile(filePath)
        manifestsSlice == unmarshal(file.data)
    IN  IF file.err # Nil
        THEN [results |-> EmptyMap, warns |-> <<>>, panic |-> Nil,
              err |-> "unable to read manifest file at '" \o filePath \o "': " \o file.err]
        ELSE IF manifestsSlice.err # Nil
        THEN [results |-> EmptyMap, warns |-> manifestsSlice.warns, panic |-> Nil,
              err |-> "unable to parse manifests: " \o manifestsSlice.err]
        ELSE IF \E i \in 1..Len(manifestsSlice.results) : Panics(manifestsSlice.results[i])
        THEN [results |-> EmptyMap, warns |-> manifestsSlice.warns, panic |-> PanicText,
              err |-> Nil]
        ELSE [results |-> Index(EmptyMap, manifestsSlice.results),
              warns |-> manifestsSlice.warns, panic |-> Nil, err |-> Nil]

(***************************************************************************)
(* main and run, one action per call.                                      *)
(***************************************************************************)

Paths == DOMAIN Disk \cup {""}

OutputPaths == {"", "out.sh"}

IgnoreFlags ==
    {"", "foo", "pod:Abc", "Pod:Abc", "pod:Abc,a.b:c,pod:AbC", "pod:Abc,a:b:c",
     "servicemonitor.monitoring.coreos.com:tracing-jaeger-operator,configmap:tracing-grafana-dashboard",
     "servicemonitors.monitoring.coreos.com:tracing-jaeger-operator"}

Flags(from_, to_, output_, ignored_) ==
    [fromFile |-> from_, toFile |-> to_, outputFile |-> output_, ignored |-> ignored_]

\* the state when main calls run
Init ==
    /\ pc = "run"
    /\ f \in {Flags(a, b, o, i) : a \in Paths, b \in Paths, o \in OutputPaths, i \in IgnoreFlags}
    /\ reads = <<>>
    /\ from = EmptyMap
    /\ to = EmptyMap
    /\ ignored = <<>>
    /\ orphaned = <<>>
    /\ out = <<>>
    /\ files = EmptyMap
    /\ err = Nil
    /\ manifestsArg = <<>>
    /\ decoder = <<>>
    /\ resultsSlice = <<>>

Return(e) == err' = e /\ pc' = "returned"

\* a panic nothing recovers: the runtime ends the process, run never returns and
\* main prints nothing
Panic == err' = err /\ pc' = "panic"

\* run, lines 52-57
CheckFlags ==
    /\ pc = "run"
    /\ IF Len(f.fromFile) = 0 THEN Return("flag not specified: from")
       ELSE IF Len(f.toFile) = 0 THEN Return("flag not specified: to")
       ELSE pc' = "parseFrom" /\ err' = err
    /\ UNCHANGED <<manifestsArg, decoder, resultsSlice>>
    /\ UNCHANGED <<f, reads, from, to, ignored, orphaned, out, files>>

\* run, lines 59-62
ParseFrom ==
    /\ pc = "parseFrom"
    /\ LET r == parseManifest(f.fromFile)
       IN  /\ reads' = Append(reads, f.fromFile)
           /\ out' = out \o r.warns
           /\ from' = IF r.panic # Nil THEN from ELSE r.results
           /\ IF r.panic # Nil THEN Panic
              ELSE IF r.err # Nil THEN Return(r.err) ELSE pc' = "parseTo" /\ err' = err
    /\ UNCHANGED <<manifestsArg, decoder, resultsSlice>>
    /\ UNCHANGED <<f, to, ignored, orphaned, files>>

\* run, lines 63-66
ParseTo ==
    /\ pc = "parseTo"
    /\ LET r == parseManifest(f.toFile)
       IN  /\ reads' = Append(reads, f.toFile)
           /\ out' = out \o r.warns
           /\ to' = IF r.panic # Nil THEN to ELSE r.results
           /\ IF r.panic # Nil THEN Panic
              ELSE IF r.err # Nil THEN Return(r.err) ELSE pc' = "parseIgnored" /\ err' = err
    /\ UNCHANGED <<manifestsArg, decoder, resultsSlice>>
    /\ UNCHANGED <<f, from, ignored, orphaned, files>>

\* run, lines 67-73
ParseIgnored ==
    /\ pc = "parseIgnored"
    /\ IF Len(f.ignored) > 0
       THEN LET r == parseIgnoredManifests(f.ignored)
            IN  /\ ignored' = r.list
                /\ IF r.err # Nil THEN Return(r.err) ELSE pc' = "compare" /\ err' = err
       ELSE ignored' = ignored /\ pc' = "compare" /\ err' = err
    /\ UNCHANGED <<manifestsArg, decoder, resultsSlice>>
    /\ UNCHANGED <<f, reads, from, to, orphaned, out, files>>

\* run without the early return on an empty comparison
CompareNoEarlyReturn ==
    /\ pc = "compare"
    /\ \E result \in compare(from, to) :
          /\ orphaned' = result
          /\ out' = out /\ pc' = "removeIgnored" /\ err' = err
    /\ UNCHANGED <<manifestsArg, decoder, resultsSlice>>
    /\ UNCHANGED <<f, reads, from, to, ignored, files>>

\* run, lines 74-78
Compare ==
    /\ pc = "compare"
    /\ \E result \in compare(from, to) :
          /\ orphaned' = result
          /\ IF Len(result) = 0
             THEN out' = Append(out, "Manifests are equal\n") /\ Return(Nil)
             ELSE out' = out /\ pc' = "removeIgnored" /\ err' = err
    /\ UNCHANGED <<manifestsArg, decoder, resultsSlice>>
    /\ UNCHANGED <<f, reads, from, to, ignored, files>>

\* run, line 79
RemoveIgnored ==
    /\ pc = "removeIgnored"
    /\ orphaned' = removeIgnored(orphaned, ignored)
    /\ pc' = "printSummary"
    /\ UNCHANGED <<manifestsArg, decoder, resultsSlice>>
    /\ UNCHANGED <<f, reads, from, to, ignored, out, files, err>>

\* run, lines 81-82
PrintSummary ==
    /\ pc = "printSummary"
    /\ out' = out \o SummaryLines(orphaned)
    /\ IF Len(f.outputFile) > 0 THEN pc' = "generate" /\ err' = err ELSE Return(Nil)
    /\ UNCHANGED <<manifestsArg, decoder, resultsSlice>>
    /\ UNCHANGED <<f, reads, from, to, ignored, orphaned, files>>

\* generateDeletionScript: os.Create may fail; the text is buffered and reaches the
\* file in Flush, which may fail too and then leaves the created file without it
GenerateDeletionScript ==
    /\ pc = "generate"
    /\ \E io \in {"ok", "create fails", "flush fails"} :
          CASE io = "create fails" ->
                 /\ files' = files
                 /\ out' = out
                 /\ Return("unable to crea te file: open " \o f.outputFile \o ": permission denied")
            [] io = "flush fails" ->
                 /\ files' = [p \in DOMAIN files \cup {f.outputFile} |-> ""]
                 /\ out' = out
                 /\ Return("error writing to file - write " \o f.outputFile \o ": no space left on device")
            [] OTHER ->
                 /\ files' = [p \in DOMAIN files \cup {f.outputFile} |-> ScriptText(orphaned)]
                 /\ out' = Append(out, "Deletion script created: '" \o f.outputFile \o "'\n")
                 /\ Return(Nil)
    /\ UNCHANGED <<manifestsArg, decoder, resultsSlice>>
    /\ UNCHANGED <<f, reads, from, to, ignored, orphaned>>

\* main, lines 45-48: exit status 2 on an error, 0 otherwise
Exit ==
    /\ pc = "returned"
    /\ IF err # Nil
       THEN out' = Append(out, "Error: " \o err \o "\n") /\ pc' = "exit 2"
       ELSE out' = out /\ pc' = "exit 0"
    /\ UNCHANGED <<manifestsArg, decoder, resultsSlice>>
    /\ UNCHANGED <<f, reads, from, to, ignored, orphaned, files, err>>

Next ==
    \/ CheckFlags
    \/ ParseFrom
    \/ ParseTo
    \/ ParseIgnored
    \/ Compare
    \/ RemoveIgnored
    \/ PrintSummary
    \/ GenerateDeletionScript
    \/ Exit

Spec == Init /\ [][Next]_vars

(***************************************************************************)
(* The differencer and the emitter on every pair of small manifest sets:   *)
(* run from line 74 on, after two files have loaded into from and to and   *)
(* the -ignore flag has parsed into ignored.                               *)
(***************************************************************************)

MaxDocs == 3

MaxIgnore == 2

DocPool == {P1, P2, P3, P4, P5}

EntryPool == {KN("pod", "Abc"), KN("Pod", "Abc"), KN("pod", "abc"), KN("pods.apps", "Abc"),
              KN("a.b", "c"), KN("pod", "AbC"), KN("ps.g", "odAbc")}

Streams == UNION {[1..n -> DocPool] : n \in 0..MaxDocs}

IgnoreLists == UNION {[1..n -> EntryPool] : n \in 0..MaxIgnore}

\* the maps parseManifest builds from the streams
Indexes == {Index(EmptyMap, s) : s \in Streams}

\* the -ignore flag that parses into list
RECURSIVE JoinIgnored(_)
JoinIgnored(list) ==
    IF Len(list) = 0 THEN ""
    ELSE Head(list).kind \o ":" \o Head(list).name
            \o (IF Len(list) > 1 THEN "," ELSE "") \o JoinIgnored(Tail(list))

InitDiff ==
    /\ pc = "compare"
    /\ \E o \in OutputPaths, ign \in IgnoreLists :
          /\ f = Flags("from.yaml", "to.yaml", o, JoinIgnored(ign))
          /\ ignored = ign
    /\ reads = <<"from.yaml", "to.yaml">>
    /\ from \in Indexes
    /\ to \in Indexes
    /\ orphaned = <<>>
    /\ out = <<>>
    /\ files = EmptyMap
    /\ err = Nil
    /\ manifestsArg = <<>>
    /\ decoder = <<>>
    /\ resultsSlice = <<>>

NextDiff ==
    \/ Compare
    \/ RemoveIgnored
    \/ PrintSummary
    \/ GenerateDeletionScript
    \/ Exit

SpecDiff == InitDiff /\ [][NextDiff]_vars

(***************************************************************************)
(* The decode loop of unmarshal, one action per iteration, on every small  *)
(* stream of documents.  manifestsArg is the argument of unmarshal,        *)
(* decoder what the decoder has not read yet, resultsSlice the slice the   *)
(* loop appends to.                                                        *)
(***************************************************************************)

MaxStream == 4

StreamPool == {P1, P4, NullDoc, TypeErrDoc, SyntaxErrDoc, NoNameDoc}

\* decoder.Decode(&manifestYaml): whether it leaves manifestYaml nil, the mapping
\* it decodes, its error and the input it leaves
DecoderDecode(dec) ==
    IF Len(dec) = 0
    THEN [isNil |-> FALSE, manifestYaml |-> NullDoc, err |-> "EOF", rest |-> dec]
    ELSE LET d == Head(dec)
         IN  [isNil |-> d.t = "null",
              manifestYaml |-> d,
              err |-> CASE d.t = "typeerr" -> TypeErrText
                        [] d.t = "syntaxerr" -> SyntaxErrText
                        [] OTHER -> Nil,
              rest |-> Tail(dec)]

InitUnmarshal ==
    /\ pc = "unmarshal"
    /\ manifestsArg \in UNION {[1..n -> StreamPool] : n \in 0..MaxStream}
    /\ decoder = manifestsArg
    /\ resultsSlice = <<>>
    /\ f = Flags("", "", "", "")
    /\ reads = <<>>
    /\ from = EmptyMap
    /\ to = EmptyMap
    /\ ignored = <<>>
    /\ orphaned = <<>>
    /\ out = <<>>
    /\ files = EmptyMap
    /\ err = Nil

\* an iteration that returns the type error instead of skipping the document
UnmarshalLoopTypeErrorFatal ==
    /\ pc = "unmarshal"
    /\ LET r == DecoderDecode(decoder)
       IN  /\ decoder' = r.rest
           /\ IF r.isNil
              THEN UNCHANGED <<pc, out, err, resultsSlice>>
              ELSE IF r.err = "EOF"
              THEN pc' = "unmarshalled" /\ UNCHANGED <<out, err, resultsSlice>>
              ELSE IF r.err # Nil
              THEN /\ resultsSlice' = <<>>
                   /\ err' = "unable to decode manifest to yaml: " \o r.err
                   /\ pc' = "unmarshalled"
                   /\ out' = out
              ELSE /\ resultsSlice' = Append(resultsSlice, r.manifestYaml)
                   /\ UNCHANGED <<pc, out, err>>
    /\ UNCHANGED <<manifestsArg, f, reads, from, to, ignored, orphaned, files>>

\* unmarshal, lines 171-189: one iteration of the loop
UnmarshalLoop ==
    /\ pc = "unmarshal"
    /\ LET r == DecoderDecode(decoder)
       IN  /\ decoder' = r.rest
           /\ IF r.isNil
              THEN UNCHANGED <<pc, out, err, resultsSlice>>
              ELSE IF r.err = "EOF"
              THEN pc' = "unmarshalled" /\ UNCHANGED <<out, err, resultsSlice>>
              ELSE IF r.err = TypeErrText
              THEN /\ out' = Append(out, "WARN - type error: " \o r.err \o "\n")
                   /\ UNCHANGED <<pc, err, resultsSlice>>
              ELSE IF r.err # Nil
              THEN /\ resultsSlice' = <<>>
                   /\ err' = "unable to decode manifest to yaml: " \o r.err
                   /\ pc' = "unmarshalled"
                   /\ out' = out
              ELSE /\ resultsSlice' = Append(resultsSlice, r.manifestYaml)
                   /\ UNCHANGED <<pc, out, err>>
    /\ UNCHANGED <<manifestsArg, f, reads, from, to, ignored, orphaned, files>>

NextUnmarshal == UnmarshalLoop

\* the process runs the loop on: an iteration that can run does run
SpecUnmarshal == InitUnmarshal /\ [][NextUnmarshal]_vars /\ WF_vars(NextUnmarshal)

(***************************************************************************)
(* Properties.                                                             *)
(***************************************************************************)

Range(s) == {s[i] : i \in DOMAIN s}

IdentityKey(m) == m.kind \o m.name

HasSubstring(s, sub) ==
    \E i \in 1..(Len(s) - Len(sub) + 1) : SubSeq(s, i, i + Len(sub) - 1) = sub

Printed(text) == \E i \in 1..Len(out) : HasSubstring(out[i], text)

Finished == {"returned", "exit 0", "exit 2"}

\* C1: compare returns exactly the triples of from whose identity key kind||name is
\* no key of to, each once; a (kind, name) that from and to both hold, whatever
\* their apiVersion values, is not in the result.
C1_CompareIsKeyDifference ==
    [][pc = "compare" =>
        LET missing == {m \in Range(from) : IdentityKey(m) \notin DOMAIN to}
        IN  /\ Range(orphaned') = missing
            /\ Len(orphaned') = Cardinality(missing)
            /\ \A m \in Range(from), t \in Range(to) :
                  (m.kind = t.kind /\ m.name = t.name) => m \notin Range(orphaned')]_vars

\* compare has returned a non-empty list although from holds a (kind, name) that to
\* holds under another apiVersion
C1_Witness ==
    /\ pc = "removeIgnored"
    /\ \E k \in DOMAIN from \cap DOMAIN to :
          /\ from[k].kind = to[k].kind
          /\ from[k].name = to[k].name
          /\ from[k].apiVersion # to[k].apiVersion
    /\ Len(orphaned) >= 1

\* C2 (as claimed): a run whose final orphan list is empty prints the no-op line and
\* does not call generateDeletionScript, so that no output file exists.
C2_EmptyDeltaSkipsEmitter ==
    /\ (pc = "generate" => Len(orphaned) > 0)
    /\ (pc \in Finished /\ err = Nil /\ Len(orphaned) = 0
            => Printed("Manifests are equal") /\ files = EmptyMap)

WellFormedIgnore(flag) ==
    \/ flag = ""
    \/ \A e \in Range(Split(flag, ",")) :
          Cardinality({i \in 1..Len(e) : Char(e, i) = ":"}) = 1

\* a file os.ReadFile returns, the decoder reads to its end and parseManifest
\* turns into a map
Loadable(path) ==
    /\ path \in DOMAIN Disk
    /\ Disk[path].readable
    /\ \A d \in Range(Disk[path].docs) : d.t # "syntaxerr" /\ ~Panics(d)

\* C3 (as claimed): with -from F -to F for a loadable F and any -ignore value, run
\* returns no error, the orphan list is empty, `Manifests delta is ok` is printed
\* and the -output file is not created.
C3_SameFileAsClaimed ==
    (pc \in Finished /\ f.fromFile = f.toFile /\ Loadable(f.fromFile))
        => /\ err = Nil
           /\ orphaned = <<>>
           /\ Printed("Manifests delta is ok")
           /\ files = EmptyMap

\* C3 (amended): with -from F -to F for a loadable F and an -ignore value that is
\* empty or whose entries each hold exactly one ':', run returns no error, the
\* orphan list is empty, the line `Manifests are equal` is printed and the -output
\* file is not created.
C3_SameFileNoDelta ==
    (pc \in Finished /\ f.fromFile = f.toFile /\ Loadable(f.fromFile)
            /\ WellFormedIgnore(f.ignored))
        => /\ err = Nil
           /\ pc # "exit 2"
           /\ orphaned = <<>>
           /\ Printed("Manifests are equal")
           /\ files = EmptyMap

\* a run on one non-empty file, with an ignore list and an output path, has exited
C3_Witness ==
    /\ pc = "exit 0"
    /\ f.fromFile = f.toFile
    /\ Cardinality(DOMAIN from) >= 2
    /\ Len(ignored) >= 1
    /\ f.outputFile # ""

\* (kind, name) of a is at most (kind, name) of b, comparing the raw strings
PairLeq(a, b) ==
    \/ StrLess(a.kind, b.kind)
    \/ a.kind = b.kind /\ (a.name = b.name \/ StrLess(a.name, b.name))

\* C4: the orphan list printSummary and generateDeletionScript receive is sorted by
\* raw kind, then raw name.
C4_OrphansSorted ==
    pc \in {"printSummary", "generate"}
        => \A i \in 1..(Len(orphaned) - 1) : PairLeq(orphaned[i], orphaned[i + 1])

\* two orphans are left after the ignore filter removed one, and the raw order of
\* their kinds is not the order of the lowercased kinds
C4_Witness ==
    /\ pc = "generate"
    /\ Len(orphaned) >= 2
    /\ Len(orphaned) < Cardinality({k \in DOMAIN from : k \notin DOMAIN to})
    /\ \E i \in 1..(Len(orphaned) - 1) :
          StrLess(ToLower(orphaned[i + 1].kind), ToLower(orphaned[i].kind))

\* the part of s before its first c; all of s when it holds none
BeforeFirst(s, c) ==
    IF \E i \in 1..Len(s) : Char(s, i) = c
    THEN LET i == CHOOSE j \in 1..Len(s) :
                     Char(s, j) = c /\ \A k \in 1..(j - 1) : Char(s, k) # c
         IN  SubSeq(s, 1, i - 1)
    ELSE s

\* the resource token the claims describe
ResourceToken(m) ==
    IF \E i \in 1..Len(m.apiVersion) : Char(m.apiVersion, i) = "/"
    THEN ToLower(m.kind) \o "s." \o ToLower(BeforeFirst(m.apiVersion, "/"))
    ELSE ToLower(m.kind)

RECURSIVE ExpectedLines(_, _)
ExpectedLines(L, i) ==
    IF i > Len(L) THEN ""
    ELSE "kubectl delete -n kyma-system " \o ResourceToken(L[i]) \o " "
            \o ToLower(L[i].name) \o "\n" \o ExpectedLines(L, i + 1)

EmittedToken(script, i) == Split(Split(script, "\n")[i + 2], " ")[5]

ScriptWritten == pc \in Finished /\ err = Nil /\ f.outputFile \in DOMAIN files

\* C6 (as claimed): the resource token of an emitted line holds a '.' if and only if
\* the apiVersion of its orphan holds a '/'.
C6_DotIffSlash ==
    ScriptWritten =>
        \A i \in 1..Len(orphaned) :
            Contains(EmittedToken(files[f.outputFile], i), ".")
                <=> Contains(orphaned[i].apiVersion, "/")

\* C6 (amended): the resource token of an emitted line holds a '.' if and only if
\* the apiVersion of its orphan holds a '/' or its kind holds a '.'.
C6_DotIffSlashOrDottedKind ==
    ScriptWritten =>
        \A i \in 1..Len(orphaned) :
            Contains(EmittedToken(files[f.outputFile], i), ".")
                <=> (Contains(orphaned[i].apiVersion, "/") \/ Contains(orphaned[i].kind, "."))

\* a script with a line for a grouped resource and a line for a core resource
\* whose kind has no '.'
C6_Witness ==
    /\ ScriptWritten
    /\ \E i, j \in 1..Len(orphaned) :
          /\ Contains(orphaned[i].apiVersion, "/")
          /\ ~Contains(orphaned[j].apiVersion, "/")
          /\ ~Contains(orphaned[j].kind, ".")

RECURSIVE IsSubSequence(_, _)
IsSubSequence(a, b) ==
    IF Len(a) = 0 THEN TRUE
    ELSE IF Len(b) = 0 THEN FALSE
    ELSE IF Head(a) = Head(b) THEN IsSubSequence(Tail(a), Tail(b))
    ELSE IsSubSequence(a, Tail(b))

\* list with e put in after its first n entries
InsertAt(list, n, e) == SubSeq(list, 1, n) \o <<e>> \o SubSeq(list, n + 1, Len(list))

\* C7: for the same from and to, the orphan list under an ignore list with one more
\* entry, wherever it is put, is a sub-sequence of the orphan list the run keeps.
C7_IgnoreMonotone ==
    [][pc = "removeIgnored" =>
        \A r \in compare(from, to), e \in EntryPool, n \in 0..Len(ignored) :
            IsSubSequence(removeIgnored(r, InsertAt(ignored, n, e)), orphaned')]_vars

\* the filter has run with a non-empty ignore list and has kept an orphan that one
\* more entry would remove
C7_Witness ==
    /\ pc = "printSummary"
    /\ Len(ignored) >= 1
    /\ \E e \in EntryPool :
          Len(removeIgnored(orphaned, <<e>> \o ignored)) < Len(orphaned)

ReadmeIgnore ==
    "servicemonitor.monitoring.coreos.com:tracing-jaeger-operator,configmap:tracing-grafana-dashboard"

\* an ignore entry's kind written as lowercase(kind) "." group, without the plural s
UnpluralisedKind(m) ==
    IF Contains(m.apiVersion, "/")
    THEN ToLower(m.kind) \o "." \o ToLower(BeforeFirst(m.apiVersion, "/"))
    ELSE ToLower(m.kind)

\* C9 (as claimed): with the ignore list of the README scenario the written script
\* names neither tracing-jaeger-operator nor tracing-grafana-dashboard; in general
\* no orphan is emitted that an ignore entry names as lowercase(kind) "." group and
\* name, and the emitted orphans are sorted.
C9_UnpluralisedIgnoreSuppresses ==
    ScriptWritten =>
        /\ f.ignored = ReadmeIgnore =>
              /\ ~HasSubstring(files[f.outputFile], "tracing-jaeger-operator")
              /\ ~HasSubstring(files[f.outputFile], "tracing-grafana-dashboard")
        /\ \A m \in Range(orphaned), e \in Range(ignored) :
              ~(e.kind = UnpluralisedKind(m) /\ e.name = m.name)
        /\ \A i \in 1..(Len(orphaned) - 1) : PairLeq(orphaned[i], orphaned[i + 1])

\* the first entry of an -ignore value that does not hold exactly one ':'
FirstBadEntry(flag) ==
    LET entries == Split(flag, ",")
        bad == {i \in 1..Len(entries) :
                   Cardinality({j \in 1..Len(entries[i]) : Char(entries[i], j) = ":"}) # 1}
    IN  entries[CHOOSE i \in bad : \A j \in bad : i <= j]

\* the configuration error of the flags, Nil when they have none
ConfigError(flags) ==
    IF flags.fromFile = "" THEN "flag not specified: from"
    ELSE IF flags.toFile = "" THEN "flag not specified: to"
    ELSE IF ~WellFormedIgnore(flags.ignored)
         THEN "invalid ignored manifest format: " \o FirstBadEntry(flags.ignored)
    ELSE Nil

\* C10 (as claimed): when a required flag is empty or an -ignore entry does not hold
\* exactly one ':', no manifest file is ever read and run fails with the
\* configuration error.
C10_ConfigErrorBeforeReads ==
    ConfigError(f) # Nil =>
        /\ reads = <<>>
        /\ pc \in Finished => err = ConfigError(f)

C13_PodSecurityPolicyLine ==
    (ScriptWritten
        /\ KNV("policy/v1beta1", "PodSecurityPolicy", "002-kyma-privileged") \in Range(orphaned))
        => HasSubstring(files[f.outputFile],
              "kubectl delete -n kyma-system podsecuritypolicies.policy 002-kyma-privileged\n")

\* a manifest file with an input error: it cannot be read, its stream holds a
\* document the decoder fails on with an error that is no type error, or a
\* document without a string apiVersion, kind or metadata.name
InputError(path) ==
    /\ path # ""
    /\ \/ path \notin DOMAIN Disk
       \/ ~Disk[path].readable
       \/ \E d \in Range(Disk[path].docs) : d.t = "syntaxerr" \/ Panics(d)

\* C12 (as claimed): when the from file or the to file has an input error, run
\* returns an error to main, which prints `Error: <message>` and exits with status
\* 2, and the output file is never created.
C12_InputErrorReturned ==
    (InputError(f.fromFile) \/ InputError(f.toFile))
        => /\ files = EmptyMap
           /\ pc \notin {"panic", "exit 0", "parseIgnored", "compare", "removeIgnored",
                         "printSummary", "generate"}
           /\ pc = "returned" => err # Nil
           /\ pc = "exit 2" => out[Len(out)] = "Error: " \o err \o "\n"

\* the resources of a manifest file: the mappings of its stream
Resources(path) == {d \in Range(Disk[path].docs) : d.t = "doc"}

\* an entry of the parsed ignore list names the resource d
IgnoreEntryMatches(d) ==
    \E i \in 1..Len(ignored) :
        /\ ignored[i].kind = simpleKind(KNV(d.apiVersion, d.kind, d.name))
        /\ ignored[i].name = d.name

\* the orphan list run ends with
FinalList == pc \in {"printSummary", "generate"} \/ (pc \in Finished /\ err = Nil)

\* C15 (as claimed): every resource of the from stream whose (kind, name) is the
\* (kind, name) of no resource of the to stream, and which no ignore entry matches
\* under that (kind, name), has its (kind, name) in the final orphan list - also
\* when two different (kind, name) pairs concatenate to the same key.
C15_NoOrphanLost ==
    FinalList =>
        \A d \in Resources(f.fromFile) :
            (/\ \A t \in Resources(f.toFile) : ~(t.kind = d.kind /\ t.name = d.name)
             /\ \A d2 \in Resources(f.fromFile) :
                    (d2.kind = d.kind /\ d2.name = d.name) => ~IgnoreEntryMatches(d2))
                => \E o \in Range(orphaned) : o.kind = d.kind /\ o.name = d.name

\* the number of documents of s that fail with a type error
RECURSIVE TypeErrors(_)
TypeErrors(s) ==
    IF Len(s) = 0 THEN 0
    ELSE (IF Head(s).t = "typeerr" THEN 1 ELSE 0) + TypeErrors(Tail(s))

IsMapping(d) == d.t \notin {"null", "typeerr", "syntaxerr"}

\* the documents of s before the first one that fails with a non-type error
BeforeSyntaxError(s) ==
    IF \E i \in 1..Len(s) : s[i].t = "syntaxerr"
    THEN SubSeq(s, 1, (CHOOSE i \in 1..Len(s) :
                          /\ s[i].t = "syntaxerr"
                          /\ \A j \in 1..(i - 1) : s[j].t # "syntaxerr") - 1)
    ELSE s

\* C14: the decode loop of unmarshal ends on every finite stream; when it has
\* ended, one `WARN - type error: ...` line has been printed for each document that
\* failed with a type error before the first non-type decode error, and nothing
\* else; a non-type decode error makes unmarshal return that error and no
\* documents; otherwise it returns no error and exactly the mappings of the
\* stream, in stream order, null documents and type errors left out.  The result
\* is the one parseManifest works with.
C14_UnmarshalLoop ==
    /\ <>(pc = "unmarshalled")
    /\ [](pc = "unmarshalled" =>
            LET read == BeforeSyntaxError(manifestsArg)
            IN  /\ Len(out) = TypeErrors(read)
                /\ \A i \in 1..Len(out) :
                       out[i] = "WARN - type error: " \o TypeErrText \o "\n"
                /\ IF read # manifestsArg
                   THEN /\ err = "unable to decode manifest to yaml: " \o SyntaxErrText
                        /\ resultsSlice = <<>>
                   ELSE /\ err = Nil
                        /\ resultsSlice = SelectSeq(manifestsArg, IsMapping)
                /\ unmarshal(manifestsArg)
                       = [results |-> resultsSlice, warns |-> out, err |-> err])

\* the loop has ended on a stream with a type error and a null document, each
\* followed by a mapping, and has returned two different mappings
C14_Witness ==
    /\ pc = "unmarshalled"
    /\ err = Nil
    /\ \E i, j \in 1..Len(manifestsArg) :
          /\ i < j
          /\ manifestsArg[i].t = "typeerr"
          /\ manifestsArg[j].t = "null"
          /\ \E k \in (j + 1)..Len(manifestsArg) : IsMapping(manifestsArg[k])
    /\ Len(resultsSlice) = 2
    /\ resultsSlice[1] # resultsSlice[2]
    /\ Len(out) = 1

====
